---- MODULE Spec2Model ----
(***************************************************************************)
(* mcp-to-ts: adapter from an MCP toolset to validated callable wrappers   *)
(* (createMcpToolFunctions) and to a metadata list                         *)
(* (listMcpToolsFromToolSet).  The model follows src/src/index.ts: every   *)
(* action is one run of an async function from one await to the next.      *)
(***************************************************************************)
EXTENDS Integers, Sequences, FiniteSets, TLC

\* ------------------------------------------------------------------ bounds
\* Number of createMcpToolFunctions calls that may be in flight together.
NumPasses == 2
\* Number of wrapper calls made over a behaviour.
MaxCalls == 2

Passes == 1..NumPasses
Calls == 1..MaxCalls

\* ------------------------------------------------------------ value domain
\* Tool names (keys of the toolset) and the orders Object.keys may give them.
Names == {"greet", "calc"}
KeyOrders == {<<"greet", "calc">>, <<"calc", "greet">>}

Undefined == "undefined"

\* Resolved Schema objects, by identity.  hA, hB, hAsync and hBad come from
\* jsonSchema(...) without a validate function; hOwn and hStd carry their own.
Handles == {"hA", "hB", "hAsync", "hBad", "hOwn", "hStd"}
NoHandle == "none"

\* An input-schema value as the duck-typing of isFlexibleSchema sees it: its
\* typeof, whether it is null, which of the probed properties it carries, and
\* the Schema object asSchema resolves it to.
SchemaValue(t, n, p, h) == [typeof |-> t, isNull |-> n, props |-> p, target |-> h]
JsA == SchemaValue("object", FALSE, {"jsonSchema", "validate"}, "hA")
JsB == SchemaValue("object", FALSE, {"jsonSchema", "validate"}, "hB")
JsAsync == SchemaValue("object", FALSE, {"jsonSchema", "validate"}, "hAsync")
JsBad == SchemaValue("object", FALSE, {"jsonSchema", "validate"}, "hBad")
LazyA == SchemaValue("function", FALSE, {}, "hA")
OwnSchema == SchemaValue("object", FALSE, {"jsonSchema", "validate"}, "hOwn")
StdSchema == SchemaValue("object", FALSE, {"~standard"}, "hStd")
NullValue == SchemaValue("object", TRUE, {}, NoHandle)
UndefinedValue == SchemaValue("undefined", FALSE, {}, NoHandle)
NumberValue == SchemaValue("number", FALSE, {}, NoHandle)
StringValue == SchemaValue("string", FALSE, {}, NoHandle)
PlainObject == SchemaValue("object", FALSE, {}, NoHandle)
OnlyJsonSchema == SchemaValue("object", FALSE, {"jsonSchema"}, NoHandle)
OnlyValidate == SchemaValue("object", FALSE, {"validate"}, NoHandle)

SupportedValues == {JsA, JsB, JsAsync, JsBad, LazyA, OwnSchema, StdSchema}
UnsupportedValues ==
  {NullValue, UndefinedValue, NumberValue, StringValue, PlainObject,
   OnlyJsonSchema, OnlyValidate}

\* McpToolDefinition (index.ts 32-40); present = FALSE is a falsy entry.
ToolDef(d, t, s, e) ==
  [present |-> TRUE, description |-> d, title |-> t, inputSchema |-> s,
   execute |-> e]
Falsy ==
  [present |-> FALSE, description |-> Undefined, title |-> Undefined,
   inputSchema |-> UndefinedValue, execute |-> FALSE]

\* Argument values passed to a wrapper: an object whose "name" property is a
\* string, a number or absent, with or without one extra property.
ArgValue(n, x) == [name |-> n, extra |-> x]
Args ==
  {ArgValue("str:bob", FALSE), ArgValue("num:123", FALSE),
   ArgValue("absent", FALSE), ArgValue("num:123", TRUE)}
NoArg == ArgValue("none", FALSE)

\* ------------------------------------------------------- schema resolution
\* isFlexibleSchema with || for && in its last line.
isFlexibleSchemaEither(value) ==
  IF value.typeof = "function" THEN TRUE
  ELSE IF value.typeof # "object" \/ value.isNull THEN FALSE
  ELSE IF "~standard" \in value.props THEN TRUE
  ELSE "jsonSchema" \in value.props \/ "validate" \in value.props

\* index.ts 48-59
isFlexibleSchema(value) ==
  IF value.typeof = "function" THEN TRUE
  ELSE IF value.typeof # "object" \/ value.isNull THEN FALSE
  ELSE IF "~standard" \in value.props THEN TRUE
  ELSE "jsonSchema" \in value.props /\ "validate" \in value.props

\* Error objects: type, message, and for a TypeValidationError the wrapped
\* value and the message of the wrapped cause.
PlainError(msg) ==
  [type |-> "Error", message |-> msg, value |-> NoArg, cause |-> Undefined]
NoError ==
  [type |-> "none", message |-> "", value |-> NoArg, cause |-> Undefined]

UnsupportedSchemaError == PlainError("Tool input schema is not a supported schema.")

\* index.ts 61-66: the value itself, or the unsupported-schema error thrown.
ensureFlexibleSchema(value) ==
  IF isFlexibleSchema(value)
  THEN [ok |-> TRUE, value |-> value, error |-> NoError]
  ELSE [ok |-> FALSE, value |-> value, error |-> UnsupportedSchemaError]

\* asSchema of the "ai" package as called at index.ts 130 and 211: the Schema
\* object the accepted value stands for.
asSchema(value) == value.target

\* Whether the resolved Schema already exposes validate (index.ts 131).
HasOwnValidate(h) == h \in {"hOwn", "hStd"}

\* schema.jsonSchema of each resolved Schema; "invalid" is a document that
\* is no JSON Schema, which ajv.compile refuses.
JsonSchemaOf(h) ==
  CASE h = "hA" -> "nameString"
    [] h = "hB" -> "emptyObject"
    [] h = "hAsync" -> "asyncNameString"
    [] h = "hBad" -> "invalid"
    [] h = "hOwn" -> "nameString"
    [] OTHER -> "emptyObject"

\* ---------------------------------------------------- compiled validators
\* One violation as Ajv reports it.
AjvError(path, msg) == [instancePath |-> path, message |-> msg]

\* The violations Ajv (allErrors: true, index.ts 18) finds in a value, per
\* JSON Schema.  "nameString" is the schema of the greet test
\* (test/mcp-to-ts.test.ts 29-36): an object with a required string "name" and
\* no other property; "emptyObject" is that of the noop test (56-60).
AjvViolations(jsonSchema, value) ==
  LET additional ==
        IF value.extra \/ (jsonSchema = "emptyObject" /\ value.name # "absent")
        THEN <<AjvError("", "must NOT have additional properties")>>
        ELSE <<>>
      required ==
        IF jsonSchema # "emptyObject" /\ value.name = "absent"
        THEN <<AjvError("", "must have required property 'name'")>>
        ELSE <<>>
      typed ==
        IF jsonSchema # "emptyObject" /\ value.name = "num:123"
        THEN <<AjvError("/name", "must be string")>>
        ELSE <<>>
  IN required \o additional \o typed

\* The "errors" property of a compiled validator: null or an array.
NullErrors == [isArray |-> FALSE, items |-> <<>>]
ArrayErrors(items) == [isArray |-> TRUE, items |-> items]

\* One run of a compiled validator (index.ts 120): what it returns and what
\* it leaves in its own "errors" property.  A validator compiled from an
\* $async schema returns a promise and reports nothing synchronously.
AjvRun(jsonSchema, value, oldErrors) ==
  IF jsonSchema = "asyncNameString"
  THEN [result |-> "promise", errors |-> oldErrors]
  ELSE IF AjvViolations(jsonSchema, value) = <<>>
  THEN [result |-> "true", errors |-> NullErrors]
  ELSE [result |-> "false",
        errors |-> ArrayErrors(AjvViolations(jsonSchema, value))]

\* index.ts 68-80
readOptionalString(value, key) ==
  IF key \in DOMAIN value THEN value[key] ELSE Undefined

RECURSIVE JoinFrom(_, _, _)
JoinFrom(messages, i, sep) ==
  IF i > Len(messages) THEN ""
  ELSE IF i = Len(messages) THEN messages[i]
  ELSE messages[i] \o sep \o JoinFrom(messages, i + 1, sep)

\* index.ts 82-101
formatAjvErrors(errors) ==
  IF ~errors.isArray \/ Len(errors.items) = 0
  THEN "Input did not match the expected schema."
  ELSE
    LET line(i) ==
          LET error == errors.items[i]
              message == readOptionalString(error, "message")
              instancePath ==
                IF readOptionalString(error, "instancePath") # Undefined
                THEN readOptionalString(error, "instancePath")
                ELSE readOptionalString(error, "dataPath")
              label ==
                IF instancePath # Undefined /\ Len(instancePath) > 0
                THEN instancePath
                ELSE "error " \o ToString(i)
          IN IF message # Undefined /\ message # ""
             THEN label \o ": " \o message
             ELSE label \o ": invalid input"
        messages == [i \in 1..Len(errors.items) |-> line(i)]
    IN JoinFrom(messages, 1, "; ")

AsyncValidationError == PlainError("Async JSON schema validation is not supported.")

\* A ValidationResult (index.ts 44-46), or the error validate threw.
ValidationSuccess(value) ==
  [threw |-> FALSE, success |-> TRUE, value |-> value, error |-> NoError]
ValidationFailure(error) ==
  [threw |-> FALSE, success |-> FALSE, value |-> NoArg, error |-> error]
ValidationThrew(error) ==
  [threw |-> TRUE, success |-> FALSE, value |-> NoArg, error |-> error]

\* The validate function of a Schema that brings its own: it accepts an
\* object whose only property is a string "name".
OwnValidate(value) ==
  IF value.name = "str:bob" /\ ~value.extra
  THEN ValidationSuccess(value)
  ELSE ValidationFailure(PlainError("Invalid input"))

\* AjvValidate with the read of the validator's errors moved before the run:
\* the message is built from whatever an earlier run left there.
AjvValidateStale(h, value, errors) ==
  LET run == AjvRun(JsonSchemaOf(h), value, errors[h])
      after == [errors EXCEPT ![h] = run.errors]
  IN [errors |-> after,
      result |->
        IF run.result \notin {"true", "false"}
        THEN ValidationThrew(AsyncValidationError)
        ELSE IF run.result = "true"
        THEN ValidationSuccess(value)
        ELSE ValidationFailure(PlainError(formatAjvErrors(errors[h])))]

\* The validate closure built at index.ts 135-141 over the validator compiled
\* for Schema h, with ensureSyncValidation (116-125) inlined: run the
\* validator, which rewrites its "errors", then read them back.  "errors" is
\* the errors property of every compiled validator before the run; the result
\* carries it after the run.
AjvValidate(h, value, errors) ==
  LET run == AjvRun(JsonSchemaOf(h), value, errors[h])
      after == [errors EXCEPT ![h] = run.errors]
  IN [errors |-> after,
      result |->
        IF run.result \notin {"true", "false"}
        THEN ValidationThrew(AsyncValidationError)
        ELSE IF run.result = "true"
        THEN ValidationSuccess(value)
        ELSE ValidationFailure(PlainError(formatAjvErrors(after[h])))]

\* schema.validate(value) of the Schema buildValidatedSchema returned
\* (index.ts 131-145).
SchemaValidate(h, value, errors) ==
  IF HasOwnValidate(h)
  THEN [errors |-> errors, result |-> OwnValidate(value)]
  ELSE AjvValidate(h, value, errors)

\* JSON.stringify of an argument value.
JSONstringify(value) ==
  LET name ==
        CASE value.name = "str:bob" -> "\"name\":\"bob\""
          [] value.name = "num:123" -> "\"name\":123"
          [] OTHER -> ""
      extra == IF value.extra THEN "\"extra\":true" ELSE ""
      sep == IF name # "" /\ extra # "" THEN "," ELSE ""
  IN "{" \o name \o sep \o extra \o "}"

\* TypeValidationError.wrap of the "ai" package, as called at index.ts 159.
TypeValidationErrorWrap(value, cause) ==
  IF cause.type = "TypeValidationError" /\ cause.value = value
  THEN cause
  ELSE [type |-> "TypeValidationError",
        message |-> "Type validation failed: Value: " \o JSONstringify(value)
                    \o ".\nError message: " \o cause.message,
        value |-> value,
        cause |-> cause.message]

\* validateInput without the test of result.success: every result that was
\* produced counts as validated.
validateInputUnchecked(value, validation) ==
  IF validation.threw
  THEN [ok |-> FALSE, value |-> NoArg, error |-> validation.error]
  ELSE [ok |-> TRUE, value |-> value, error |-> NoError]

\* index.ts 148-160, after schema.validate has produced "validation": the
\* validated value, or the error validateInput rejects with.
validateInput(value, validation) ==
  IF validation.threw
  THEN [ok |-> FALSE, value |-> NoArg, error |-> validation.error]
  ELSE IF validation.success
  THEN [ok |-> TRUE, value |-> validation.value, error |-> NoError]
  ELSE [ok |-> FALSE, value |-> NoArg,
        error |-> TypeValidationErrorWrap(value, validation.error)]

\* -------------------------------------------------------------------- state
VARIABLES
  toolset,               \* the McpToolSet every pass is given: keys, tools
  schemaValidatorCache,  \* index.ts 19: the Schema objects that have an entry
  validatorErrors,       \* the "errors" property of each compiled validator
  compileCalls,          \* how often ajv.compile ran (index.ts 111), per Schema
  pass,                  \* the createMcpToolFunctions calls
  lister,                \* the listMcpToolsFromToolSet call
  call,                  \* the wrapper calls
  messagesOf             \* contents of the messages array each call allocates

vars ==
  <<toolset, schemaValidatorCache, validatorErrors, compileCalls, pass, lister,
    call, messagesOf>>

Keys == toolset.keys
ToolAt(name) == toolset.tools[name]

\* The tool definitions a toolset entry is drawn from: description and title
\* pairs, input-schema values, and whether the tool has an execute function.
ToolChoices(metas, schemas, executes) ==
  {Falsy} \cup
  {ToolDef(m[1], m[2], s, e) : m \in metas, s \in schemas, e \in executes}

ToolSets(orders, metas, schemas, executes) ==
  {[keys |-> k, tools |-> ts] :
     k \in orders, ts \in [Names -> ToolChoices(metas, schemas, executes)]}

\* index.ts 191 / 205 and the locals of a pass before its first iteration.
NewPass ==
  [pc |-> "idle", i |-> 0, resolved |-> NoHandle, toolFunctions |-> <<>>,
   inspected |-> {}, error |-> NoError]
NewLister ==
  [pc |-> "idle", i |-> 0, resolved |-> NoHandle, tools |-> <<>>,
   inspected |-> {}, error |-> NoError]

\* A wrapper call before it is made.
NoOptions == [toolCallId |-> "", messages |-> 0]
NewCall ==
  [pc |-> "idle", toolName |-> "", args |-> NoArg,
   validation |-> ValidationThrew(NoError), executed |-> 0,
   execInput |-> NoArg, execOptions |-> NoOptions, seenMessages |-> <<>>,
   produced |-> Undefined, result |-> Undefined, error |-> NoError]

InitWith(toolsets) ==
  /\ toolset \in toolsets
  /\ schemaValidatorCache = {}
  /\ validatorErrors = [h \in Handles |-> NullErrors]
  /\ compileCalls = [h \in Handles |-> 0]
  /\ pass = [p \in Passes |-> NewPass]
  /\ lister = NewLister
  /\ call = [c \in Calls |-> NewCall]
  /\ messagesOf = [r \in Calls |-> <<>>]

\* ------------------------------------------------------ construction pass
\* The loop without its "if (!tool) continue".
FirstPresentNoSkip(i) == i

\* index.ts 192-196 / 206-210: the first index from i on whose entry is not
\* falsy, or Len(Keys) + 1 when the loop runs out of keys.
RECURSIVE FirstPresent(_)
FirstPresent(i) ==
  IF i > Len(Keys) THEN i
  ELSE IF ~ToolAt(Keys[i]).present THEN FirstPresent(i + 1)
  ELSE i

\* The loop with the throw caught around it: the pass returns the wrappers
\* built so far.
ConstructionFailedPartial(ps, i, error) ==
  [ps EXCEPT !.pc = "done", !.i = i, !.error = error,
             !.inspected = @ \cup {Keys[i]}]

\* A throw inside createToolWrapper (index.ts 197): the async function
\* rejects, its locals are dropped.
ConstructionFailed(ps, i, error) ==
  [ps EXCEPT !.pc = "rejected", !.i = i, !.error = error,
             !.inspected = @ \cup {Keys[i]}]

\* index.ts 192-197 with createToolWrapper (174-176), buildValidatedSchema
\* (130-134) and getAjvValidator (106-110) down to the first await that
\* suspends the pass: the run of the loop from index "from".
EnterLoop(ps, from, cache) ==
  LET i == FirstPresent(from) IN
  IF i > Len(Keys)
  THEN [ps EXCEPT !.pc = "done", !.i = i, !.resolved = NoHandle]
  ELSE
    LET checked == ensureFlexibleSchema(ToolAt(Keys[i]).inputSchema)
        resolved == asSchema(checked.value)
    IN IF ~checked.ok
       THEN ConstructionFailed(ps, i, checked.error)
       ELSE [ps EXCEPT
               !.i = i,
               !.resolved = resolved,
               !.inspected = @ \cup {Keys[i]},
               !.pc = IF HasOwnValidate(resolved) \/ resolved \in cache
                      THEN "awaitSchema"
                      ELSE "awaitJsonSchema"]

\* createMcpToolFunctions is called (index.ts 188-197).
CallCreate(p) ==
  /\ pass[p].pc = "idle"
  /\ IF p = 1 THEN TRUE ELSE pass[p - 1].pc # "idle"
  /\ pass' = [pass EXCEPT ![p] = EnterLoop(NewPass, 1, schemaValidatorCache)]
  /\ UNCHANGED <<toolset, schemaValidatorCache, validatorErrors, compileCalls,
                 lister, call, messagesOf>>

\* The error ajv.compile throws on a document that is no JSON Schema.
CompileError == PlainError("schema is invalid")

\* getAjvValidator resumes after its await (index.ts 110-113): compile, store.
\* When ajv.compile throws, nothing is stored and the pass rejects.
Compile(p) ==
  /\ pass[p].pc = "awaitJsonSchema"
  /\ compileCalls' = [compileCalls EXCEPT ![pass[p].resolved] = @ + 1]
  /\ IF JsonSchemaOf(pass[p].resolved) = "invalid"
     THEN /\ schemaValidatorCache' = schemaValidatorCache
          /\ pass' = [pass EXCEPT ![p] =
                        ConstructionFailed(pass[p], pass[p].i, CompileError)]
     ELSE /\ schemaValidatorCache' = schemaValidatorCache \cup {pass[p].resolved}
          /\ pass' = [pass EXCEPT ![p].pc = "awaitSchema"]
  /\ UNCHANGED <<toolset, validatorErrors, lister, call, messagesOf>>

\* The wrapper createToolWrapper returns (index.ts 177-185): the tool name and
\* the validated Schema it closes over.
Wrapper(toolName, schema) == [toolName |-> toolName, schema |-> schema]

\* createToolWrapper resumes with the validated Schema and returns the
\* wrapper; the pass stores it and runs the loop on (index.ts 174-177, 197).
StoreWrapper(p) ==
  /\ pass[p].pc = "awaitSchema"
  /\ LET ps == pass[p]
         stored ==
           [ps EXCEPT !.toolFunctions =
              Append(@, Wrapper(Keys[ps.i], ps.resolved))]
     IN pass' = [pass EXCEPT ![p] = EnterLoop(stored, ps.i + 1, schemaValidatorCache)]
  /\ UNCHANGED <<toolset, schemaValidatorCache, validatorErrors, compileCalls,
                 lister, call, messagesOf>>

\* ------------------------------------------------------------ listing pass
\* The record with description and title exchanged.
McpToolInfoSwapped(toolName, tool, inputSchema) ==
  [name |-> toolName, description |-> tool.title, title |-> tool.description,
   inputSchema |-> inputSchema]

\* The record pushed at index.ts 213-218.
McpToolInfo(toolName, tool, inputSchema) ==
  [name |-> toolName, description |-> tool.description, title |-> tool.title,
   inputSchema |-> inputSchema]

\* index.ts 206-212 down to the await of schema.jsonSchema.
EnterList(ls, from) ==
  LET i == FirstPresent(from) IN
  IF i > Len(Keys)
  THEN [ls EXCEPT !.pc = "done", !.i = i, !.resolved = NoHandle]
  ELSE
    LET checked == ensureFlexibleSchema(ToolAt(Keys[i]).inputSchema)
    IN IF ~checked.ok
       THEN [ls EXCEPT !.pc = "rejected", !.i = i, !.error = checked.error,
                       !.inspected = @ \cup {Keys[i]}]
       ELSE [ls EXCEPT !.pc = "awaitJsonSchema", !.i = i,
                       !.resolved = asSchema(checked.value),
                       !.inspected = @ \cup {Keys[i]}]

\* listMcpToolsFromToolSet is called (index.ts 202-212).
CallList ==
  /\ lister.pc = "idle"
  /\ lister' = EnterList(NewLister, 1)
  /\ UNCHANGED <<toolset, schemaValidatorCache, validatorErrors, compileCalls,
                 pass, call, messagesOf>>

\* The listing resumes with the JSON Schema, pushes the record and runs the
\* loop on (index.ts 212-219, 206-212).
PushInfo ==
  /\ lister.pc = "awaitJsonSchema"
  /\ LET name == Keys[lister.i]
         pushed ==
           [lister EXCEPT !.tools =
              Append(@, McpToolInfo(name, ToolAt(name), JsonSchemaOf(lister.resolved)))]
     IN lister' = EnterList(pushed, lister.i + 1)
  /\ UNCHANGED <<toolset, schemaValidatorCache, validatorErrors, compileCalls,
                 pass, call, messagesOf>>

\* ------------------------------------------------------------ wrapper call
\* index.ts 180-182
MissingExecuteError(toolName) ==
  PlainError("MCP tool \"" \o toolName \o "\" does not have an execute function.")

\* createExecutionOptions with the messages array hoisted out of the function:
\* every call is handed the array of the first call.
createExecutionOptionsShared(toolName, fresh) ==
  [toolCallId |-> "mcp:" \o toolName, messages |-> 1]

\* index.ts 162-168; "fresh" is the array the literal [] allocates, named by
\* the call that runs the literal.
createExecutionOptions(toolName, fresh) ==
  [toolCallId |-> "mcp:" \o toolName, messages |-> fresh]

\* The wrapper without its "return": it resolves to undefined.
WrapperReturnNothing(produced) == Undefined

\* index.ts 184: what the wrapper returns of the value execute produced.
WrapperReturn(produced) == produced

\* What an execute function may do with a call: return a value or throw.
ExecuteOutcomes ==
  {[kind |-> "return", value |-> "hello world"],
   [kind |-> "throw", value |-> "execute failed"]}

\* A wrapper returned by a finished pass is called (index.ts 177-178 with
\* validateInput 152-155): schema.validate runs, then the call awaits.
CallWrapper(c, p, w, a) ==
  /\ call[c].pc = "idle"
  /\ IF c = 1 THEN TRUE ELSE call[c - 1].pc # "idle"
  /\ pass[p].pc = "done"
  /\ w \in 1..Len(pass[p].toolFunctions)
  /\ LET wrapper == pass[p].toolFunctions[w]
         validated == SchemaValidate(wrapper.schema, a, validatorErrors)
     IN /\ validatorErrors' = validated.errors
        /\ call' = [call EXCEPT ![c] =
                      [NewCall EXCEPT !.pc = "awaitValidate",
                                      !.toolName = wrapper.toolName, !.args = a,
                                      !.validation = validated.result]]
  /\ UNCHANGED <<toolset, schemaValidatorCache, compileCalls, pass, lister,
                 messagesOf>>

\* validateInput throws (index.ts 156-159, or the error validate threw): the
\* wrapper rejects at 178.
FailValidation(c) ==
  /\ call[c].pc = "awaitValidate"
  /\ LET checked == validateInput(call[c].args, call[c].validation)
     IN /\ ~checked.ok
        /\ call' = [call EXCEPT ![c].pc = "rejected", ![c].error = checked.error]
  /\ UNCHANGED <<toolset, schemaValidatorCache, validatorErrors, compileCalls,
                 pass, lister, messagesOf>>

\* index.ts 179-183
MissingExecute(c) ==
  /\ call[c].pc = "awaitValidate"
  /\ validateInput(call[c].args, call[c].validation).ok
  /\ ~ToolAt(call[c].toolName).execute
  /\ call' = [call EXCEPT ![c].pc = "rejected",
                          ![c].error = MissingExecuteError(call[c].toolName)]
  /\ UNCHANGED <<toolset, schemaValidatorCache, validatorErrors, compileCalls,
                 pass, lister, messagesOf>>

\* index.ts 184: execute is invoked with the validated value and new options;
\* it may push onto the messages it was given, and returns or throws.
Execute(c, outcome, pushes) ==
  /\ call[c].pc = "awaitValidate"
  /\ validateInput(call[c].args, call[c].validation).ok
  /\ ToolAt(call[c].toolName).execute
  /\ LET validated == validateInput(call[c].args, call[c].validation).value
         options == createExecutionOptions(call[c].toolName, c)
     IN /\ messagesOf' =
             IF pushes
             THEN [messagesOf EXCEPT ![options.messages] = Append(@, "message")]
             ELSE messagesOf
        /\ call' = [call EXCEPT ![c] =
             [@ EXCEPT
                !.executed = @ + 1,
                !.execInput = validated,
                !.execOptions = options,
                !.seenMessages = messagesOf[options.messages],
                !.pc = IF outcome.kind = "return" THEN "resolved" ELSE "rejected",
                !.produced = IF outcome.kind = "return" THEN outcome.value ELSE Undefined,
                !.result =
                  IF outcome.kind = "return" THEN WrapperReturn(outcome.value)
                  ELSE Undefined,
                !.error =
                  IF outcome.kind = "return" THEN NoError
                  ELSE PlainError(outcome.value)]]
  /\ UNCHANGED <<toolset, schemaValidatorCache, validatorErrors, compileCalls,
                 pass, lister>>

\* ------------------------------------------------------------ specification
Build(p) ==
  \/ CallCreate(p)
  \/ Compile(p)
  \/ StoreWrapper(p)

Invoke ==
  \/ \E c \in Calls, p \in Passes, w \in 1..Len(Keys), a \in Args :
       CallWrapper(c, p, w, a)
  \/ \E c \in Calls : FailValidation(c)
  \/ \E c \in Calls : MissingExecute(c)
  \/ \E c \in Calls, outcome \in ExecuteOutcomes, pushes \in BOOLEAN :
       Execute(c, outcome, pushes)

\* Toolsets of callable tools, with or without an execute function: "greet"
\* has a schema compiled by Ajv, one with its own validate, or an $async one;
\* "calc" is falsy, resolves through a lazy schema to the Schema object "greet"
\* may also use, or has a Schema object of its own.
Meta == <<"Adds values", "Calculator">>
GreetTools ==
  {ToolDef(Meta[1], Meta[2], s, e) :
     s \in {JsA, OwnSchema, JsAsync}, e \in BOOLEAN}
CalcTools ==
  {Falsy} \cup
  {ToolDef(Meta[1], Meta[2], s, e) : s \in {LazyA, JsB}, e \in BOOLEAN}
CallToolSets ==
  {[keys |-> k, tools |-> [greet |-> g, calc |-> c]] :
     k \in KeyOrders, g \in GreetTools, c \in CalcTools}

Init == InitWith(CallToolSets)

\* Construction passes in flight together, and calls of their wrappers.
Next ==
  \/ \E p \in Passes : Build(p)
  \/ Invoke

Spec == Init /\ [][Next]_vars

\* One construction pass, and calls of its wrappers in flight together.
NextCalls ==
  \/ Build(1)
  \/ Invoke

SpecCalls == Init /\ [][NextCalls]_vars

\* Construction and listing passes over toolsets of every schema shape and
\* of differing metadata.
EnumMetas == {<<"Adds values", "Calculator">>, <<"Adds values", Undefined>>}
EnumSchemas == SupportedValues \cup UnsupportedValues

InitEnum == InitWith(ToolSets(KeyOrders, EnumMetas, EnumSchemas, {TRUE}))

NextEnum ==
  \/ \E p \in Passes : Build(p)
  \/ CallList
  \/ PushInfo

SpecEnum == InitEnum /\ [][NextEnum]_vars

\* ------------------------------------------------------------------ claims
Finished(cl) == cl.pc \in {"resolved", "rejected"}

\* The resolved Schema of a tool's input schema.
ToolSchema(toolName) == asSchema(ToolAt(toolName).inputSchema)

\* What a Schema says of a value, read off the schema itself: accepted,
\* rejected (with the cause it reports), or neither (async validation).
Accepts(h, value) ==
  IF HasOwnValidate(h) THEN value.name = "str:bob" /\ ~value.extra
  ELSE JsonSchemaOf(h) # "asyncNameString"
       /\ AjvViolations(JsonSchemaOf(h), value) = <<>>
Rejects(h, value) ==
  IF HasOwnValidate(h) THEN ~(value.name = "str:bob" /\ ~value.extra)
  ELSE JsonSchemaOf(h) # "asyncNameString"
       /\ AjvViolations(JsonSchemaOf(h), value) # <<>>
RejectionCause(h, value) ==
  IF HasOwnValidate(h) THEN "Invalid input"
  ELSE formatAjvErrors(ArrayErrors(AjvViolations(JsonSchemaOf(h), value)))

RECURSIVE MentionsFrom(_, _, _)
MentionsFrom(text, part, i) ==
  IF i + Len(part) - 1 > Len(text) THEN FALSE
  ELSE IF SubSeq(text, i, i + Len(part) - 1) = part THEN TRUE
  ELSE MentionsFrom(text, part, i + 1)
Mentions(text, part) == MentionsFrom(text, part, 1)

\* C1: for a tool that has an execute function, execute is invoked only for
\* a call whose argument the tool's input schema accepted, and with that
\* argument; a call whose argument the schema rejects ends rejected with a
\* TypeValidationError that wraps the rejected value and the validation
\* cause, and execute is never invoked for it.
C1_ValidateBeforeExecute ==
  \A c \in Calls :
    LET cl == call[c] IN
    (cl.pc # "idle" /\ ToolAt(cl.toolName).execute) =>
      /\ cl.executed > 0 => Accepts(ToolSchema(cl.toolName), cl.args)
      /\ Rejects(ToolSchema(cl.toolName), cl.args) =>
           /\ cl.executed = 0
           /\ Finished(cl) =>
                /\ cl.pc = "rejected"
                /\ cl.error.type = "TypeValidationError"
                /\ cl.error.value = cl.args
                /\ cl.error.cause = RejectionCause(ToolSchema(cl.toolName), cl.args)

\* A call rejected by validation and a call that reached execute, both on
\* tools that have an execute function.
C1_Witness ==
  \E c, d \in Calls :
    /\ call[c].pc = "rejected"
    /\ call[c].error.type = "TypeValidationError"
    /\ ToolAt(call[c].toolName).execute
    /\ call[d].pc # "idle"
    /\ ToolAt(call[d].toolName).execute
    /\ call[d].executed = 1

C3_MissingExecuteAlways ==
  \A c \in Calls :
    LET cl == call[c] IN
    (Finished(cl) /\ ~ToolAt(cl.toolName).execute) =>
      /\ cl.pc = "rejected"
      /\ Mentions(cl.error.message, "execute function")

\* C9: every call that reaches execute hands it options whose toolCallId is
\* "mcp:" followed by the tool name and whose messages array is empty on
\* entry and belongs to no other call, whatever earlier executes pushed onto
\* the options they were given.
C9_FreshExecutionOptions ==
  \A c \in Calls :
    call[c].executed > 0 =>
      /\ call[c].execOptions.toolCallId = "mcp:" \o call[c].toolName
      /\ call[c].seenMessages = <<>>
      /\ \A d \in Calls \ {c} :
           call[d].executed > 0 =>
             call[d].execOptions.messages # call[c].execOptions.messages

\* Two calls of one tool have both reached execute, and one of them pushed a
\* message onto the options it was given.
C9_Witness ==
  \E c, d \in Calls :
    /\ c # d
    /\ call[c].executed = 1
    /\ call[d].executed = 1
    /\ call[c].toolName = call[d].toolName
    /\ messagesOf[call[c].execOptions.messages] # <<>>

\* C10: whenever the validator compiled for a Schema reports a call's
\* argument invalid, the error message of that call is built from the
\* violations of that call's own argument, however many other calls share
\* the validator and are in flight.
C10_ErrorsOfOwnArgument ==
  \A c \in Calls :
    LET cl == call[c]
        h == ToolSchema(cl.toolName)
    IN (cl.pc # "idle" /\ ~HasOwnValidate(h) /\ Rejects(h, cl.args)) =>
         /\ ~cl.validation.threw
         /\ ~cl.validation.success
         /\ cl.validation.error.message =
              formatAjvErrors(ArrayErrors(AjvViolations(JsonSchemaOf(h), cl.args)))

\* Two calls sharing one compiled validator are in flight together after
\* failing validation with different arguments, through different wrappers.
C10_Witness ==
  \E c, d \in Calls :
    /\ call[c].pc = "awaitValidate"
    /\ call[d].pc = "awaitValidate"
    /\ call[c].toolName # call[d].toolName
    /\ ToolSchema(call[c].toolName) = ToolSchema(call[d].toolName)
    /\ ~HasOwnValidate(ToolSchema(call[c].toolName))
    /\ call[c].args = ArgValue("num:123", TRUE)
    /\ call[d].args = ArgValue("absent", FALSE)
    /\ ~call[c].validation.success
    /\ ~call[d].validation.success

\* The keys of the non-falsy entries, in the toolset's enumeration order.
IsPresentKey(name) == ToolAt(name).present
PresentKeys == SelectSeq(Keys, IsPresentKey)

\* The position of a key in the enumeration order.
KeyIndex(name) == CHOOSE i \in 1..Len(Keys) : Keys[i] = name

\* The three schema forms of the specification's section 4.1.
IsRecognizedForm(value) ==
  \/ value.typeof = "function"
  \/ value.typeof = "object" /\ ~value.isNull /\ "~standard" \in value.props
  \/ value.typeof = "object" /\ ~value.isNull
       /\ {"jsonSchema", "validate"} \subseteq value.props

\* C4: a listing that returns holds exactly one record per non-falsy entry,
\* in the toolset's key enumeration order, each with the entry's key as name,
\* the entry's description and title, and the JSON Schema its input schema
\* resolves to.
C4_ListingRecords ==
  lister.pc = "done" =>
    /\ Len(lister.tools) = Len(PresentKeys)
    /\ \A k \in 1..Len(PresentKeys) :
         /\ lister.tools[k].name = PresentKeys[k]
         /\ lister.tools[k].description = ToolAt(PresentKeys[k]).description
         /\ lister.tools[k].title = ToolAt(PresentKeys[k]).title
         /\ lister.tools[k].inputSchema = JsonSchemaOf(ToolSchema(PresentKeys[k]))

\* A finished listing of two tools enumerated "greet" before "calc", with
\* different titles and different schemas.
C4_Witness ==
  /\ lister.pc = "done"
  /\ Len(lister.tools) = 2
  /\ lister.tools[1].name = "greet"
  /\ lister.tools[2].name = "calc"
  /\ lister.tools[1].title = Undefined
  /\ lister.tools[2].title = "Calculator"
  /\ lister.tools[1].inputSchema # lister.tools[2].inputSchema

\* C5: the JSON-Schema compiler runs at most once for each resolved Schema
\* object, over any interleaving of construction passes and wrapper calls.
C5_CompiledAtMostOnce ==
  \A h \in Handles : compileCalls[h] <= 1

\* Whether the wrapper of a tool can be built, and the error building it
\* ends with otherwise.
CanBuild(tool) ==
  /\ IsRecognizedForm(tool.inputSchema)
  /\ JsonSchemaOf(tool.inputSchema.target) # "invalid"
BuildError(tool) ==
  IF IsRecognizedForm(tool.inputSchema) THEN CompileError
  ELSE UnsupportedSchemaError

\* C6: a construction pass that meets an entry whose wrapper cannot be built
\* rejects with that entry's error and processes no later entry; a pass
\* returns a mapping only when the wrapper of every non-falsy entry was built.
C6_NoPartialSuccess ==
  \A p \in Passes :
    LET ps == pass[p] IN
    /\ \A name \in ps.inspected :
         ~CanBuild(ToolAt(name)) =>
           /\ name = Keys[ps.i]
           /\ ps.pc \in {"awaitJsonSchema", "rejected"}
    /\ ps.pc = "rejected" =>
         /\ ~CanBuild(ToolAt(Keys[ps.i]))
         /\ ps.error = BuildError(ToolAt(Keys[ps.i]))
         /\ \A name \in ps.inspected : KeyIndex(name) <= ps.i
    /\ ps.pc = "done" =>
         /\ \A k \in 1..Len(PresentKeys) : CanBuild(ToolAt(PresentKeys[k]))
         /\ Len(ps.toolFunctions) = Len(PresentKeys)

\* A pass rejected at its second entry, after the wrapper of the first was
\* built.
C6_Witness ==
  \E p \in Passes :
    /\ pass[p].pc = "rejected"
    /\ pass[p].i = 2
    /\ Len(pass[p].toolFunctions) = 1

\* C7: in a construction pass and in a listing, a falsy entry is skipped: its
\* schema is never inspected, the pass is never rejected at it, and the names
\* a finished pass returns are exactly the keys of the non-falsy entries.
C7_FalsySkipped ==
  /\ \A p \in Passes :
       /\ \A name \in pass[p].inspected : ToolAt(name).present
       /\ pass[p].pc = "rejected" => ToolAt(Keys[pass[p].i]).present
       /\ pass[p].pc = "done" =>
            /\ Len(pass[p].toolFunctions) = Len(PresentKeys)
            /\ \A k \in 1..Len(PresentKeys) :
                 pass[p].toolFunctions[k].toolName = PresentKeys[k]
  /\ \A name \in lister.inspected : ToolAt(name).present
  /\ lister.pc = "rejected" => ToolAt(Keys[lister.i]).present
  /\ lister.pc = "done" =>
       /\ Len(lister.tools) = Len(PresentKeys)
       /\ \A k \in 1..Len(PresentKeys) : lister.tools[k].name = PresentKeys[k]

\* A construction pass and a listing have both finished over a toolset whose
\* first key is falsy and whose second is not.
C7_Witness ==
  /\ ~ToolAt(Keys[1]).present
  /\ ToolAt(Keys[2]).present
  /\ lister.pc = "done"
  /\ Len(lister.tools) = 1
  /\ \E p \in Passes : pass[p].pc = "done" /\ Len(pass[p].toolFunctions) = 1

\* Schema resolution as seen from one pass, given where it stands: the pass
\* is rejected with the unsupported-schema error exactly at an entry whose
\* input schema has none of the three recognized forms.
ResolutionAsClaimed(pc, i, error, inspected) ==
  /\ (pc = "rejected" /\ error = UnsupportedSchemaError) =>
       ~IsRecognizedForm(ToolAt(Keys[i]).inputSchema)
  /\ \A name \in inspected :
       ~IsRecognizedForm(ToolAt(name).inputSchema) =>
         pc = "rejected" /\ name = Keys[i] /\ error = UnsupportedSchemaError

ResolutionFormsHold ==
  /\ \A p \in Passes :
       ResolutionAsClaimed(pass[p].pc, pass[p].i, pass[p].error, pass[p].inspected)
  /\ ResolutionAsClaimed(lister.pc, lister.i, lister.error, lister.inspected)

\* C8: schema resolution accepts an input-schema value exactly when it is a
\* function, a non-null object with "~standard", or a non-null object with
\* both "jsonSchema" and "validate"; on any other value a construction pass
\* and a listing reject with the unsupported-schema error; and no step of
\* either changes the toolset it was given.
C8_ResolutionForms ==
  []ResolutionFormsHold /\ [][toolset' = toolset]_vars

\* A construction pass and a listing are both rejected at an object that has
\* "jsonSchema" but no "validate", after getting past a function.
C8_Witness ==
  /\ lister.pc = "rejected"
  /\ lister.i = 2
  /\ ToolAt(Keys[1]).inputSchema = LazyA
  /\ ToolAt(Keys[2]).inputSchema = OnlyJsonSchema
  /\ \E p \in Passes : pass[p].pc = "rejected" /\ pass[p].i = 2

====
